---- MODULE Spec2Model ----
(***************************************************************************)
(* Model of app.py, the Streamlit flood-risk dashboard.                    *)
(*                                                                         *)
(* A Streamlit process re-executes the whole script top to bottom on every *)
(* user interaction.  The only state that survives a run is the            *)
(* st.cache_resource cache of load_models(); every module global (model,   *)
(* scaler, df_centers, risk_map, color_map, ...) is rebound by each run.   *)
(* One run is modelled as the steps                                        *)
(*   StartRun -> LoadModels -> ClusterInfo -> Tab1 -> Tab2                 *)
(* and an unhandled exception ends the run in pc = "error".                *)
(*                                                                         *)
(* Numbers: rainfall and elevation are integers.  A normalized vector is   *)
(* kept as an exact fraction num/den per feature, so that the scaler's     *)
(* transform and the model's distances are computed, not assumed.          *)
(***************************************************************************)
EXTENDS Integers, Sequences, FiniteSets, TLC

VARIABLES
    files,            \* state of kmeans_model.joblib / scaler.joblib on disk
    disk,             \* the objects the two files hold: [model, scaler]
    cache,            \* st.cache_resource entry of load_models()
    model, scaler,    \* module globals bound at line 70
    defined,          \* whether line 118 has bound df_centers/risk_map/color_map
    df_centers, risk_map, color_map,
    val_hujan, val_elevasi,       \* slider values of this run
    transform_called, predict_called,
    prediction, result_text, result_color,
    trace_names,      \* names of the centroid traces added at lines 187-195
    table,            \* rows handed to st.table at line 231
    pc, err,
    infoCalls,        \* executions of get_cluster_info since the model was loaded
    runs              \* script runs started

vars == <<files, disk, cache, model, scaler, defined, df_centers, risk_map,
          color_map, val_hujan, val_elevasi, transform_called, predict_called,
          prediction, result_text, result_color, trace_names, table, pc, err,
          infoCalls, runs>>

\* ------------------------------------------------------------------ bounds
MaxN == 5          \* most cluster centers of a model given to get_cluster_info alone
MaxAppN == 3       \* most cluster centers of a model stored on disk for the app
MaxRuns == 2       \* most script runs of one process

\* ----------------------------------------------------------------- values
Min(a, b) == IF a < b THEN a ELSE b

Fin(v) == [fin |-> TRUE, v |-> v]
NaN == [fin |-> FALSE, v |-> 0]

None == [kind |-> "None"]

\* st.cache_resource before the first call of load_models()
Empty == [kind |-> "empty"]

\* A fitted scaler: x |-> (x - mean) / scale per feature (rainfall, elevation).
ScalerVals == { [kind |-> "scaler", mean |-> <<100, 1>>, scale |-> <<100, 1>>] }

\* Cluster centers in normalized space; with the scaler above they are the raw
\* centers (0 mm, 2 mdpl), (400, 5), (400, 40) and (400, 2).
CenterVals == { <<-1, 1>>, <<3, 4>>, <<3, 39>>, <<3, 1>> }

\* The centers get_cluster_info alone is run on: one per elevation 2, 5, 40;
\* a model may hold the same center more than once.
LabelCenterVals == { <<-1, 1>>, <<3, 4>>, <<3, 39>> }

SeqsUpTo(S, n) == UNION { [1..k -> S] : k \in 1..n }

\* "kmeans": predict returns the index of the nearest center.
\* "foreign": an unpickled estimator whose predict is not tied to the
\* cluster_centers_ it exposes.
ModelsUpTo(n, kinds, centers) ==
    { [kind |-> k, cluster_centers_ |-> cs] : k \in kinds, cs \in SeqsUpTo(centers, n) }

\* The feature values a run may receive.  The script never checks them: the
\* range 0..600 / 0..100 is the slider widget's, not the prediction block's.
HujanVals == { Fin(250), Fin(400), NaN }
ElevasiVals == { Fin(5), Fin(1), NaN }

\* ----------------------------------------------------------------- scaler
\* scaler.inverse_transform on one normalized center (line 82)
inverse_transform(s, c) ==
    << c[1] * s.scale[1] + s.mean[1], c[2] * s.scale[2] + s.mean[2] >>

\* scaler.transform on one raw observation (line 155): the fraction
\* (x - mean) / scale per feature; non-finite input stays non-finite.
transformUnscaled(s, x) ==
    [ fin |-> x[1].fin /\ x[2].fin,
      num |-> << x[1].v * s.scale[1], x[2].v * s.scale[2] >>,
      den |-> s.scale ]
transform(s, x) ==
    [ fin |-> x[1].fin /\ x[2].fin,
      num |-> << x[1].v - s.mean[1], x[2].v - s.mean[2] >>,
      den |-> s.scale ]

\* ------------------------------------------------------- get_cluster_info
labels == << "Sangat Rawan (Bahaya)", "Waspada (Siaga)", "Aman" >>
color_codes == << "#FF4B4B", "#FFA500", "#28A745" >>

\* lines 80-86: the centroid frame, one row per center, Cluster_Label = row index
centers_frame(m, s) ==
    [ i \in 1..Len(m.cluster_centers_) |->
        LET o == inverse_transform(s, m.cluster_centers_[i])
        IN [ Curah_Hujan |-> o[1], Elevasi |-> o[2], Cluster_Label |-> i - 1 ] ]

\* The comparison sort_values(by='Elevasi') sorts by: ascending.
SortKeyDescending(a, b) == a.Elevasi >= b.Elevasi
SortKeyOrdered(a, b) == a.Elevasi <= b.Elevasi

\* line 92: df_centers.sort_values(by='Elevasi').reset_index(drop=True).
\* pandas' default kind is 'quicksort', which is not stable: rows of equal
\* elevation may come out in any order, so every order that is ascending in
\* elevation is a possible result.
sort_values(df) ==
    { [ i \in 1..Len(df) |-> df[p[i]] ] :
        p \in { q \in Permutations(1..Len(df)) :
                  \A i \in 1..(Len(df) - 1) :
                      SortKeyOrdered(df[q[i]], df[q[i + 1]]) } }

\* line 106: for i in range(len(df_sorted))
LoopRangeLabelsOnly(df_sorted) == 0..(Min(Len(df_sorted), Len(labels)) - 1)
LoopRange(df_sorted) == 0..(Len(df_sorted) - 1)

\* lines 108-113: the label and the color of sorted position i
LabelClamped(i) == labels[Min(i, Len(labels) - 1) + 1]
LabelAt(i) == IF i < Len(labels) THEN labels[i + 1] ELSE "Level " \o ToString(i)
ColorAt(i) == IF i < Len(labels) THEN color_codes[i + 1] ELSE "#808080"

\* lines 106-107: the keys the loop writes, and the last iteration that
\* writes key k (a later iteration overwrites an earlier one)
LoopKeys(df_sorted) ==
    { df_sorted[i + 1].Cluster_Label : i \in LoopRange(df_sorted) }
LastWrite(df_sorted, k) ==
    CHOOSE i \in LoopRange(df_sorted) :
       /\ df_sorted[i + 1].Cluster_Label = k
       /\ \A j \in LoopRange(df_sorted) :
             df_sorted[j + 1].Cluster_Label = k => j <= i

\* lines 99-113: the two dicts the loop leaves, keyed by original_label
risk_mapping(df_sorted) ==
    [ k \in LoopKeys(df_sorted) |-> LabelAt(LastWrite(df_sorted, k)) ]
colors(df_sorted) ==
    [ k \in LoopKeys(df_sorted) |-> ColorAt(LastWrite(df_sorted, k)) ]

\* line 115: the frame that is returned is df_centers, not df_sorted
ReturnedSorted(df, df_sorted) == df_sorted
ReturnedFrame(df, df_sorted) == df

\* lines 75-115, for one outcome df_sorted of the sort
get_cluster_info(df, df_sorted) ==
    [ df_centers |-> ReturnedFrame(df, df_sorted),
      risk_mapping |-> risk_mapping(df_sorted),
      colors |-> colors(df_sorted) ]

\* ------------------------------------------------------------ model.predict
\* squared distance of the normalized vector v (a fraction per feature) to the
\* center c, times the square of both denominators
Dist2(v, c) ==
    LET dr == v.num[1] - c[1] * v.den[1]
        de == v.num[2] - c[2] * v.den[2]
    IN dr * dr * v.den[2] * v.den[2] + de * de * v.den[1] * v.den[1]

\* K-Means predict: the index of the nearest center, the lowest one on a tie
NearestCenter(m, v) ==
    LET n == Len(m.cluster_centers_)
        d(i) == Dist2(v, m.cluster_centers_[i + 1])
    IN CHOOSE i \in 0..(n - 1) :
          /\ \A j \in 0..(n - 1) : d(i) <= d(j)
          /\ \A j \in 0..(i - 1) : d(j) > d(i)

Returned(id) == [raised |-> FALSE, id |-> id]
Raised == [raised |-> TRUE, id |-> 0]

\* line 158: model.predict(input_scaled)[0].  The library decides what a
\* non-finite vector does (it raises ValueError, or it still returns an index),
\* and a foreign estimator may return an index it exposes no center for.
predict(m, v) ==
    LET n == Len(m.cluster_centers_)
    IN IF ~v.fin THEN {Raised} \cup { Returned(i) : i \in 0..(n - 1) }
       ELSE IF m.kind = "kmeans" THEN { Returned(NearestCenter(m, v)) }
       ELSE { Returned(i) : i \in 0..n }

\* lines 159-160, 193-194: d[key] on a dict raises KeyError for a missing key
SubscriptOrDefault(d, key) ==
    IF key \in DOMAIN d THEN [raised |-> FALSE, val |-> d[key]]
    ELSE [raised |-> FALSE, val |-> "Aman"]
Subscript(d, key) ==
    IF key \in DOMAIN d THEN [raised |-> FALSE, val |-> d[key]]
    ELSE [raised |-> TRUE, val |-> ""]

\* line 227: Series.map(dict) yields a missing value for a key the dict lacks
MapValue(d, key) == IF key \in DOMAIN d THEN d[key] ELSE "NaN"

\* ------------------------------------------------------------------ state
\* the module globals a run has not bound yet
Unbound ==
    /\ model = None /\ scaler = None
    /\ defined = FALSE
    /\ df_centers = <<>> /\ risk_map = <<>> /\ color_map = <<>>
    /\ transform_called = FALSE /\ predict_called = FALSE
    /\ prediction = -1 /\ result_text = "" /\ result_color = ""
    /\ trace_names = <<>> /\ table = <<>>
    /\ err = "none"

Init ==
    /\ files \in {"ok", "missing", "corrupt"}
    /\ disk \in [model : ModelsUpTo(MaxAppN, {"kmeans", "foreign"}, CenterVals), scaler : ScalerVals]
    /\ cache = Empty
    /\ val_hujan = Fin(250) /\ val_elevasi = Fin(5)
    /\ Unbound
    /\ pc = "idle"
    /\ infoCalls = 0
    /\ runs = 0

\* A script run starts: the browser sends the widget values (lines 136-139)
\* and the script is executed from the top with fresh module globals.
StartRun ==
    /\ pc \in {"idle", "done", "error"}
    /\ runs < MaxRuns
    /\ runs' = runs + 1
    /\ val_hujan' \in HujanVals
    /\ val_elevasi' \in ElevasiVals
    /\ model' = None /\ scaler' = None
    /\ defined' = FALSE
    /\ df_centers' = <<>> /\ risk_map' = <<>> /\ color_map' = <<>>
    /\ transform_called' = FALSE /\ predict_called' = FALSE
    /\ prediction' = -1 /\ result_text' = "" /\ result_color' = ""
    /\ trace_names' = <<>> /\ table' = <<>>
    /\ err' = "none"
    /\ pc' = "load"
    /\ UNCHANGED <<files, disk, cache, infoCalls>>

\* lines 60-70: model, scaler = load_models(), memoized by st.cache_resource.
\* FileNotFoundError is caught and (None, None) returned (and cached); any
\* other failure of joblib.load propagates and nothing is cached.
LoadModels ==
    /\ pc = "load"
    /\ IF cache # Empty
         THEN /\ model' = cache.model /\ scaler' = cache.scaler
              /\ pc' = "info"
              /\ UNCHANGED <<cache, err, infoCalls>>
       ELSE IF files = "ok"
         THEN /\ model' = disk.model /\ scaler' = disk.scaler
              /\ cache' = [model |-> disk.model, scaler |-> disk.scaler]
              /\ infoCalls' = 0
              /\ pc' = "info"
              /\ UNCHANGED err
       ELSE IF files = "missing"
         THEN /\ model' = None /\ scaler' = None
              /\ cache' = [model |-> None, scaler |-> None]
              /\ pc' = "info"
              /\ UNCHANGED <<err, infoCalls>>
       ELSE /\ pc' = "error" /\ err' = "LoadError"
            /\ UNCHANGED <<model, scaler, cache, infoCalls>>
    /\ UNCHANGED <<files, disk, defined, df_centers, risk_map, color_map,
                   val_hujan, val_elevasi, transform_called, predict_called,
                   prediction, result_text, result_color, trace_names, table, runs>>

\* lines 117-118: if model is not None: df_centers, risk_map, color_map = ...
ClusterInfo ==
    /\ pc = "info"
    /\ IF model = None
         THEN UNCHANGED <<defined, df_centers, risk_map, color_map, infoCalls>>
       ELSE LET df == centers_frame(model, scaler)
            IN \E df_sorted \in sort_values(df) :
                 LET r == get_cluster_info(df, df_sorted)
                 IN /\ df_centers' = r.df_centers
                    /\ risk_map' = r.risk_mapping
                    /\ color_map' = r.colors
                    /\ defined' = TRUE
                    /\ infoCalls' = infoCalls + 1
    /\ pc' = "tab1"
    /\ UNCHANGED <<files, disk, cache, model, scaler, val_hujan, val_elevasi,
                   transform_called, predict_called, prediction, result_text,
                   result_color, trace_names, table, err, runs>>

\* lines 150-219: the prediction tab
Tab1 ==
    /\ pc = "tab1"
    /\ IF model = None
         THEN /\ pc' = "tab2"
              /\ UNCHANGED <<transform_called, predict_called, prediction,
                             result_text, result_color, trace_names, err>>
       ELSE LET input_scaled == transform(scaler, <<val_hujan, val_elevasi>>)
            IN \E out \in predict(model, input_scaled) :
                 /\ transform_called' = TRUE
                 /\ predict_called' = TRUE
                 /\ IF out.raised
                      THEN /\ pc' = "error" /\ err' = "ValueError"
                           /\ UNCHANGED <<prediction, result_text, result_color,
                                          trace_names>>
                    ELSE LET t == Subscript(risk_map, out.id)
                             c == Subscript(color_map, out.id)
                             ids == [ i \in 1..Len(df_centers) |->
                                        df_centers[i].Cluster_Label ]
                             ok == \A i \in 1..Len(ids) :
                                      /\ ~Subscript(color_map, ids[i]).raised
                                      /\ ~Subscript(risk_map, ids[i]).raised
                         IN /\ prediction' = out.id
                            /\ result_text' = IF t.raised THEN "" ELSE t.val
                            /\ result_color' =
                                  IF t.raised \/ c.raised THEN "" ELSE c.val
                            /\ trace_names' =
                                  IF t.raised \/ c.raised \/ ~ok THEN <<>>
                                  ELSE [ i \in 1..Len(ids) |->
                                           "Pusat " \o Subscript(risk_map, ids[i]).val ]
                            /\ IF t.raised \/ c.raised \/ ~ok
                                 THEN pc' = "error" /\ err' = "KeyError"
                                 ELSE pc' = "tab2" /\ UNCHANGED err
    /\ UNCHANGED <<files, disk, cache, model, scaler, defined, df_centers,
                   risk_map, color_map, val_hujan, val_elevasi, table,
                   infoCalls, runs>>

\* lines 221-231: the cluster-information tab; it reads df_centers and
\* risk_map whether or not line 118 bound them
Tab2 ==
    /\ pc = "tab2"
    /\ IF ~defined
         THEN /\ pc' = "error" /\ err' = "NameError"
              /\ UNCHANGED table
       ELSE /\ table' = [ i \in 1..Len(df_centers) |->
                            [ Kategori_Risiko |->
                                  MapValue(risk_map, df_centers[i].Cluster_Label),
                              Curah_Hujan |-> df_centers[i].Curah_Hujan,
                              Elevasi |-> df_centers[i].Elevasi ] ]
            /\ pc' = "done"
            /\ UNCHANGED err
    /\ UNCHANGED <<files, disk, cache, model, scaler, defined, df_centers,
                   risk_map, color_map, val_hujan, val_elevasi,
                   transform_called, predict_called, prediction, result_text,
                   result_color, trace_names, infoCalls, runs>>

Next == StartRun \/ LoadModels \/ ClusterInfo \/ Tab1 \/ Tab2

Spec == Init /\ [][Next]_vars

\* get_cluster_info alone: a K-Means model of up to MaxN centers has just been
\* loaded and the run stands before line 117.
InitLabel ==
    /\ files = "ok"
    /\ disk \in [model : ModelsUpTo(MaxN, {"kmeans"}, LabelCenterVals), scaler : ScalerVals]
    /\ cache = disk
    /\ model = disk.model /\ scaler = disk.scaler
    /\ defined = FALSE
    /\ df_centers = <<>> /\ risk_map = <<>> /\ color_map = <<>>
    /\ val_hujan = Fin(250) /\ val_elevasi = Fin(5)
    /\ transform_called = FALSE /\ predict_called = FALSE
    /\ prediction = -1 /\ result_text = "" /\ result_color = ""
    /\ trace_names = <<>> /\ table = <<>>
    /\ pc = "info" /\ err = "none"
    /\ infoCalls = 0
    /\ runs = 1

NextLabel == ClusterInfo

SpecLabel == InitLabel /\ [][NextLabel]_vars

\* ------------------------------------------------------------- properties
\* what the claims speak about, read off the loaded model
N == Len(model.cluster_centers_)
Rain(c) == inverse_transform(scaler, model.cluster_centers_[c + 1])[1]
Elev(c) == inverse_transform(scaler, model.cluster_centers_[c + 1])[2]
Ids == 0..(N - 1)

Severe == "Sangat Rawan (Bahaya)"
Caution == "Waspada (Siaga)"
Safe == "Aman"

\* rank of a category on the severity scale, 0 the most severe
SeverityRank(l) ==
    IF l = Severe THEN 0
    ELSE IF l = Caution THEN 1
    ELSE IF l = Safe THEN 2
    ELSE CHOOSE i \in 3..(MaxN + 1) : l = "Level " \o ToString(i)

\* get_cluster_info has returned and line 118 has bound its results
Labeled == pc = "tab1" /\ defined

\* C1: for a model of N >= 1 centers the risk mapping has exactly the keys
\* 0..N-1 (each once, it is a function) and the color mapping has the same keys.
C1_KeySet ==
    Labeled => /\ DOMAIN risk_map = Ids
               /\ DOMAIN color_map = DOMAIN risk_map
               /\ Cardinality(DOMAIN risk_map) = N
C1_Witness ==
    Labeled /\ N = 5 /\ DOMAIN risk_map = 0..4 /\ DOMAIN color_map = 0..4

\* C2: a center of strictly lower elevation gets a strictly lower (more
\* severe) rank, whatever cluster ids the centers carry; three centers at
\* 2, 5 and 40 mdpl get Severe, Caution, Safe in that elevation order.
C2_ElevationOrder ==
    Labeled =>
      /\ \A a, b \in Ids :
            Elev(a) < Elev(b) =>
               SeverityRank(risk_map[a]) < SeverityRank(risk_map[b])
      /\ (N = 3 /\ { Elev(c) : c \in Ids } = {2, 5, 40}) =>
            \A c \in Ids :
               risk_map[c] = IF Elev(c) = 2 THEN Severe
                             ELSE IF Elev(c) = 5 THEN Caution ELSE Safe
C2_Witness ==
    /\ Labeled /\ N = 3
    /\ Elev(0) = 40 /\ Elev(1) = 2 /\ Elev(2) = 5
    /\ risk_map[0] = Safe /\ risk_map[1] = Severe /\ risk_map[2] = Caution

\* the ids that hold label l
Holders(l) == { c \in Ids : risk_map[c] = l }

\* C3: with N > 3 centers get_cluster_info does not fail; the three fixed
\* labels go to three centers no higher than any other, and for every
\* i in 3..N-1 exactly one center is labeled "Level i", in grey, the levels
\* rising with elevation; for N = 5 the two highest centers hold "Level 3"
\* and "Level 4".
C3_FallbackLevels ==
    (Labeled /\ N > 3) =>
      /\ err = "none"
      /\ \A l \in {Severe, Caution, Safe} : Cardinality(Holders(l)) = 1
      /\ \A i \in 3..(N - 1) :
            LET h == Holders("Level " \o ToString(i))
            IN /\ Cardinality(h) = 1
               /\ \A c \in h : color_map[c] = "#808080"
      /\ \A c, d \in Ids :
            (SeverityRank(risk_map[c]) < 3 /\ SeverityRank(risk_map[d]) >= 3)
               => Elev(c) <= Elev(d)
      /\ \A c, d \in Ids :
            (SeverityRank(risk_map[c]) < SeverityRank(risk_map[d]))
               => Elev(c) <= Elev(d)
      /\ N = 5 =>
            /\ Cardinality(Holders("Level 3")) = 1
            /\ Cardinality(Holders("Level 4")) = 1
            /\ \A c \in Holders("Level 3") \cup Holders("Level 4") :
                  \A d \in Ids : risk_map[d] \in {Severe, Caution, Safe}
                                    => Elev(d) <= Elev(c)
C3_Witness ==
    /\ Labeled /\ N = 5
    /\ \E c, d \in Ids :
          /\ risk_map[c] = "Level 3" /\ risk_map[d] = "Level 4"
          /\ color_map[c] = "#808080" /\ color_map[d] = "#808080"
          /\ Elev(c) = 5 /\ Elev(d) = 40

\* C4: centers of identical elevation are ordered by cluster id ascending:
\* the smaller id gets the more severe rank.
C4_TieBreakById ==
    Labeled =>
      \A a, b \in Ids :
         (a < b /\ Elev(a) = Elev(b)) =>
            SeverityRank(risk_map[a]) < SeverityRank(risk_map[b])

Classified == pc \in {"tab2", "done"} /\ model # None /\ predict_called

\* the run has an observation with a non-finite feature and a loaded model,
\* and the prediction tab is behind it
NonFiniteSeen ==
    /\ pc \in {"tab2", "done", "error"}
    /\ model # None
    /\ (~val_hujan.fin \/ ~val_elevasi.fin)

\* C5: an observation with a non-finite rainfall or elevation is rejected
\* with InvalidObservation: transform and predict are not invoked and no
\* category is produced.
C5_RejectsNonFinite ==
    NonFiniteSeen =>
      /\ err = "InvalidObservation"
      /\ ~transform_called /\ ~predict_called
      /\ result_text = "" /\ result_color = ""

\* C6: when load_models yields no model, the run still completes without an
\* unhandled error.
C6_DegradesGracefully ==
    (model = None /\ cache # Empty /\ pc \in {"tab1", "tab2", "done", "error"})
       => (pc # "error" /\ err = "none")

\* C7: when predict returns a cluster id that is no key of the assignment,
\* the request ends in an error and no category or color is produced.
C7_MissingKeyFailsLoudly ==
    (predict_called /\ prediction # -1 /\ prediction \notin DOMAIN risk_map)
       => /\ pc = "error" /\ err = "KeyError"
          /\ result_text = "" /\ result_color = ""
          /\ trace_names = <<>>
C7_Witness ==
    /\ predict_called /\ prediction = N /\ prediction \notin DOMAIN risk_map
    /\ err = "KeyError"

\* C8: get_cluster_info is executed at most once per loaded model instance.
C8_ComputedOnce == infoCalls <= 1

\* squared normalized distance of the raw observation (h, e) to center c,
\* times the square of both scales
ObsDist(h, e, c) ==
    (h - Rain(c)) * (h - Rain(c)) * scaler.scale[2] * scaler.scale[2]
       + (e - Elev(c)) * (e - Elev(c)) * scaler.scale[1] * scaler.scale[1]

\* center c is strictly nearer to (h, e) than every other center
StrictlyNearest(h, e, c) ==
    \A d \in Ids \ {c} : ObsDist(h, e, c) < ObsDist(h, e, d)

\* center c is strictly lower than every other center
StrictlyLowest(c) == \A d \in Ids \ {c} : Elev(c) < Elev(d)

\* the observation of scenario B has been classified by a K-Means model whose
\* lowest center is labeled Severe
ScenarioB ==
    /\ Classified /\ model.kind = "kmeans"
    /\ val_hujan = Fin(400) /\ val_elevasi = Fin(1)
    /\ \E c \in Ids : risk_map[c] = Severe /\ \A d \in Ids : Elev(c) <= Elev(d)

\* C10: the observation (400, 1) is classified Severe by every model whose
\* lowest-elevation center is labeled Severe.
C10_AlwaysSevere == ScenarioB => result_text = Severe

\* C10 as amended: the observation (400, 1) is classified Severe by every
\* model whose strictly lowest center is also the center strictly nearest to
\* the observation in normalized space.
C10_SevereWhenNearestIsLowest ==
    ScenarioB =>
      \A c \in Ids :
         (StrictlyLowest(c) /\ StrictlyNearest(400, 1, c)) =>
            /\ prediction = c
            /\ result_text = Severe /\ result_color = "#FF4B4B"
C10_Witness ==
    /\ ScenarioB /\ N = 2
    /\ Elev(0) = 40 /\ Elev(1) = 2 /\ Rain(0) = 400 /\ Rain(1) = 0
    /\ StrictlyLowest(1) /\ StrictlyNearest(400, 1, 1)
    /\ prediction = 1 /\ result_text = Severe

====
